---- MODULE Spec2Model ----
(***************************************************************************)
(* Model of src/Script.py: the structural heuristic extract_python_ast,    *)
(* the remote judgment analyze_with_gemini, and the result section of the  *)
(* Streamlit script that calls them on an uploaded file.                   *)
(*                                                                         *)
(* A script run is: the uploader and the two buttons deliver their values  *)
(* (Upload), the structural result section runs (StructuralSection), the   *)
(* deep-scan result section runs (DeepSection), the run ends (Finish).     *)
(***************************************************************************)
EXTENDS Integers, Sequences, FiniteSets, TLC

VARIABLES
    api_key,        \* TRUE iff GEMINI_API_KEY was found at start-up (line 113)
    uploaded_file,  \* the uploaded file of this run: [name, doc], or NoFile
    run_ast,        \* value of the "Structural Scan" button in this run
    run_ai,         \* value of the "Deep AI Scan" button in this run
    data,           \* what extract_python_ast returned in this run
    verdict,        \* what became of the remote judgment in this run
    shown,          \* the widgets the result section rendered, in order
    calls,          \* the analyzer calls made in this run, in order
    pc              \* position of the script run

vars == <<api_key, uploaded_file, run_ast, run_ai, data, verdict, shown, calls, pc>>

(***************************************************************************)
(* Bounds of the model.                                                    *)
(***************************************************************************)
\* at most this many def / async def statements in a document
MaxFuns == 2
\* documents of every node count 1..MaxSmall are enumerated
MaxSmall == 10
\* documents of every node count within Window of the size threshold too
Window == 2
\* the largest number of extra distinct statement kinds in a document
MaxVariety == 36
\* the nesting of unary operators the parser still accepts; one more
\* exhausts its stack (CPython: MemoryError or RecursionError)
ParserNestLimit == 2

(***************************************************************************)
(* Constants of the program.                                               *)
(***************************************************************************)
\* line 131: num_nodes > 150
NodeThreshold == 150
\* line 129: score += 30
LowDiversityWeight == 30
\* line 130: score += 20
SingleFunctionWeight == 20
\* line 131: score += 10
LargeSampleWeight == 10
\* line 132: min(score, 100)
ScoreCap == 100

Min(a, b) == IF a <= b THEN a ELSE b
Max(a, b) == IF a >= b THEN a ELSE b

RECURSIVE Gcd(_, _)
Gcd(a, b) == IF b = 0 THEN a ELSE Gcd(b, a % b)

(***************************************************************************)
(* Documents.  A document is the text of an uploaded file, described by    *)
(* what ast.parse makes of it: whether it is syntactically valid and, if   *)
(* so, the syntax tree.  The tree is laid out as                           *)
(*   Module                                                                *)
(*     the def / async def statements (siblings, or nested in a chain),    *)
(*       each with its arguments node, the innermost body being pass       *)
(*     an expression statement  - - ... - 1  with `nest` unary minus       *)
(*     `variety` simple statements of pairwise distinct kinds              *)
(*     `fill` pass statements                                              *)
(***************************************************************************)
DefKinds == {"FunctionDef", "AsyncFunctionDef"}

\* kinds of the variety statements, all distinct from the kinds used above
VarietyKinds ==
    << "Break", "Continue", "Return", "Raise", "Global", "Nonlocal",
       "Import", "ImportFrom", "Delete", "Assert", "Assign", "AugAssign",
       "AnnAssign", "For", "While", "If", "With", "Try", "ClassDef",
       "Match", "AsyncFor", "AsyncWith", "Lambda", "Dict", "Set", "List",
       "Tuple", "ListComp", "SetComp", "DictComp", "GeneratorExp", "Await",
       "Yield", "YieldFrom", "Compare", "Call", "JoinedStr", "Attribute",
       "Subscript", "Starred", "BinOp", "BoolOp", "IfExp", "NamedExpr" >>

FunSize(d) ==
    IF Len(d.funs) = 0 THEN 0
    ELSE IF d.nested THEN 2 * Len(d.funs) + 1 ELSE 3 * Len(d.funs)

NestSize(d) == IF d.nest = 0 THEN 0 ELSE 2 + 2 * d.nest

ExprAt(d) == 2 + FunSize(d)
VarietyAt(d) == ExprAt(d) + NestSize(d)
FillAt(d) == VarietyAt(d) + d.variety
TreeSize(d) == FillAt(d) + d.fill - 1

Leaf(k) == [kind |-> k, children |-> <<>>]

\* the statements directly under Module, in source order
TopLevel(d) ==
    (IF Len(d.funs) = 0 THEN <<>>
     ELSE IF d.nested THEN <<2>>
     ELSE [j \in 1..Len(d.funs) |-> 3 * j - 1])
    \o (IF d.nest = 0 THEN <<>> ELSE <<ExprAt(d)>>)
    \o [j \in 1..(d.variety + d.fill) |-> VarietyAt(d) + j - 1]

FunNode(d, i) ==
    LET o == i - 2 IN
    IF d.nested
    THEN IF o = 2 * Len(d.funs) THEN Leaf("Pass")
         ELSE IF o % 2 = 0
              THEN [kind |-> d.funs[o \div 2 + 1], children |-> <<i + 1, i + 2>>]
              ELSE Leaf("arguments")
    ELSE CASE o % 3 = 0 -> [kind |-> d.funs[o \div 3 + 1], children |-> <<i + 1, i + 2>>]
           [] o % 3 = 1 -> Leaf("arguments")
           [] OTHER     -> Leaf("Pass")

NestNode(d, i) ==
    LET o == i - ExprAt(d) IN
    IF o = 0 THEN [kind |-> "Expr", children |-> <<i + 1>>]
    ELSE IF o = 2 * d.nest + 1 THEN Leaf("Constant")
    ELSE IF o % 2 = 1 THEN [kind |-> "UnaryOp", children |-> <<i + 1, i + 2>>]
    ELSE Leaf("USub")

\* the syntax tree of a valid document: node 1 is the root
Tree(d) ==
    [i \in 1..TreeSize(d) |->
        IF i = 1 THEN [kind |-> "Module", children |-> TopLevel(d)]
        ELSE IF i < ExprAt(d) THEN FunNode(d, i)
        ELSE IF i < VarietyAt(d) THEN NestNode(d, i)
        ELSE IF i < FillAt(d) THEN Leaf(VarietyKinds[i - VarietyAt(d) + 1])
        ELSE Leaf("Pass")]

(***************************************************************************)
(* ast.parse and ast.walk (the standard library, as the script uses it).   *)
(***************************************************************************)
\* ast.parse(code_text): the tree, or the exception it raises.  A text that
\* is not valid Python raises SyntaxError; a valid text nested deeper than
\* the parser's stack allows raises MemoryError.
AstParse(code_text) ==
    IF ~code_text.valid THEN [exc |-> "SyntaxError"]
    ELSE IF code_text.nest > ParserNestLimit THEN [exc |-> "MemoryError"]
    ELSE [exc |-> "none", tree |-> Tree(code_text)]

\* ast.walk(tree): todo = deque([node]); pop left, extend by the children,
\* yield the node.  When the first node of some depth is popped the deque
\* holds exactly the nodes of that depth, in order, so the loop yields the
\* tree level by level; it is computed here one level per step.  The result
\* is the list of the yielded nodes' kinds.
RECURSIVE ChildrenOf(_, _, _, _)
ChildrenOf(tree, level, lo, hi) ==
    IF lo > hi THEN <<>>
    ELSE IF lo = hi THEN tree[level[lo]].children
    ELSE LET mid == (lo + hi) \div 2
         IN  ChildrenOf(tree, level, lo, mid) \o ChildrenOf(tree, level, mid + 1, hi)

RECURSIVE WalkFrom(_, _, _)
WalkFrom(tree, todo, out) ==
    IF todo = <<>> THEN out
    ELSE WalkFrom(tree, ChildrenOf(tree, todo, 1, Len(todo)),
                  out \o [i \in 1..Len(todo) |-> tree[todo[i]].kind])

AstWalkSkipRoot(tree) == WalkFrom(tree, tree[1].children, <<>>)

AstWalk(tree) == WalkFrom(tree, <<1>>, <<>>)

(***************************************************************************)
(* extract_python_ast, lines 121-134.                                      *)
(***************************************************************************)
\* len(set(node_types))
UniqueNodes(node_types) ==
    Cardinality({node_types[i] : i \in 1..Len(node_types)})

CountAnyDef(node_types) ==
    Cardinality({i \in 1..Len(node_types) : node_types[i] \in DefKinds})

\* node_types.count("FunctionDef")
CountFunctionDef(node_types) ==
    Cardinality({i \in 1..Len(node_types) : node_types[i] = "FunctionDef"})

RatioInverted(unique_nodes, num_nodes) ==
    [num |-> Max(num_nodes, 1), den |-> Max(unique_nodes, 1)]

\* unique_nodes / max(num_nodes, 1), kept as the exact fraction
Ratio(unique_nodes, num_nodes) ==
    [num |-> unique_nodes, den |-> Max(num_nodes, 1)]

\* ratio < 0.25.  0.25 is a double, and the double nearest num/den is below
\* it exactly when num/den is (the gap is at least 1/(4*den)).
RatioBelowQuarter(ratio) == 4 * ratio.num < ratio.den

\* Numerators m for which the double nearest m/40, m/200 lies above it.
\* These are the fractions whose third decimal is an exact 5 that no double
\* represents; m/8 is the only other such form and is a double itself.
DoubleAbove40 == {1, 9, 11, 13, 21, 27, 31, 37}
DoubleAbove200 ==
    {1, 7, 11, 13, 17, 19, 23, 27, 33, 39, 51, 53, 63, 67, 77, 79, 81, 89,
     91, 93, 101, 103, 107, 109, 111, 127, 129, 131, 133, 137, 151, 153,
     157, 159, 161, 177, 179, 181, 183, 187}

\* f"{ratio:.2f}": the string, given as its number of hundredths ("0.25" is
\* 25, "1.00" is 100).  The double is rounded to nearest, an exact tie to
\* the even digit.
Format2f(ratio) ==
    LET q == (100 * ratio.num) \div ratio.den
        r == (100 * ratio.num) % ratio.den
        g == Gcd(ratio.num, ratio.den)
        m == ratio.num \div g
        d == ratio.den \div g
    IN  CASE 2 * r < ratio.den -> q
          [] 2 * r > ratio.den -> q + 1
          [] d = 40  -> IF m \in DoubleAbove40 THEN q + 1 ELSE q
          [] d = 200 -> IF m \in DoubleAbove200 THEN q + 1 ELSE q
          [] OTHER   -> IF q % 2 = 0 THEN q ELSE q + 1

ScoreNonStrict(node_types) ==
    LET num_nodes == Len(node_types)
        ratio == Ratio(UniqueNodes(node_types), num_nodes)
    IN  Min((IF 4 * ratio.num <= ratio.den THEN LowDiversityWeight ELSE 0)
            + (IF CountFunctionDef(node_types) = 1 THEN SingleFunctionWeight ELSE 0)
            + (IF num_nodes >= NodeThreshold THEN LargeSampleWeight ELSE 0),
            ScoreCap)

\* lines 127-132: the three terms and the clamp
Score(node_types) ==
    LET num_nodes == Len(node_types)
        ratio == Ratio(UniqueNodes(node_types), num_nodes)
    IN  Min((IF RatioBelowQuarter(ratio) THEN LowDiversityWeight ELSE 0)
            + (IF CountFunctionDef(node_types) = 1 THEN SingleFunctionWeight ELSE 0)
            + (IF num_nodes > NodeThreshold THEN LargeSampleWeight ELSE 0),
            ScoreCap)

NoneResult == [kind |-> "None"]

MetricsWithoutRatio(node_types) ==
    [kind |-> "dict",
     dict |-> [score |-> Score(node_types), nodes |-> Len(node_types)]]

\* line 132: the dict returned on success
Metrics(node_types) ==
    [kind |-> "dict",
     dict |-> [score |-> Score(node_types),
               nodes |-> Len(node_types),
               ratio |-> Format2f(Ratio(UniqueNodes(node_types), Len(node_types)))]]

extract_python_ast_except_SyntaxError(code_text) ==
    LET parsed == AstParse(code_text)
    IN  IF parsed.exc = "SyntaxError" THEN NoneResult
        ELSE IF parsed.exc # "none" THEN [kind |-> "raise", exc |-> parsed.exc]
        ELSE Metrics(AstWalk(parsed.tree))

\* the whole function: any exception inside the try gives None
extract_python_ast(code_text) ==
    LET parsed == AstParse(code_text)
    IN  IF parsed.exc # "none" THEN NoneResult
        ELSE Metrics(AstWalk(parsed.tree))

(***************************************************************************)
(* The remote judgment: analyze_with_gemini, lines 136-141.                *)
(***************************************************************************)
VerdictKeys ==
    {"overall_ai_probability", "suspected_source_site", "reasoning", "text_summary"}

\* values the service may give 'overall_ai_probability': a percentage, a
\* number that is no percentage, a string such as "85%"
ProbValues ==
    {[type |-> "int", val |-> 85], [type |-> "int", val |-> 150],
     [type |-> "str", val |-> 0]}

NoKeys == {k \in VerdictKeys : FALSE}

Outcome(exc, body, keys, prob) ==
    [exc |-> exc, body |-> body, keys |-> keys, prob |-> prob]

NoOutcome == Outcome("none", "no_object", NoKeys, [type |-> "int", val |-> 85])

\* What model.generate_content(...) and response.text can do when the key is
\* configured: raise (quota exhausted, transport failure, a blocked response
\* whose .text raises), or deliver a text.  A text either holds no {...},
\* or holds one that is not JSON, or holds a JSON object with some keys.
ServiceOutcomes ==
    {Outcome(e, "no_object", NoKeys, NoOutcome.prob) :
        e \in {"ResourceExhausted", "ServiceUnavailable", "ValueError"}}
    \cup {Outcome("none", b, NoKeys, NoOutcome.prob) : b \in {"no_object", "invalid_json"}}
    \cup {Outcome("none", "object", ks, NoOutcome.prob) : ks \in SUBSET VerdictKeys}
    \cup {Outcome("none", "object", VerdictKeys, p) : p \in ProbValues}

\* line 117 never ran without a key: the name `model` is undefined
GenerateOutcomes(key) ==
    IF key THEN ServiceOutcomes
    ELSE {Outcome("NameError", "no_object", NoKeys, NoOutcome.prob)}

\* json.loads of the matched {...}: the dict
JsonObject(o) ==
    [k \in o.keys |-> IF k = "overall_ai_probability" THEN o.prob
                      ELSE [type |-> "str", val |-> 0]]

\* the call: what it returns, or the exception that leaves it
analyze_with_gemini(o) ==
    CASE o.exc # "none"           -> [kind |-> "raise", exc |-> o.exc]
      [] o.body = "no_object"     -> [kind |-> "None"]
      [] o.body = "invalid_json"  -> [kind |-> "raise", exc |-> "JSONDecodeError"]
      [] OTHER                    -> [kind |-> "dict", dict |-> JsonObject(o)]

(***************************************************************************)
(* The uploaded file, lines 148-155 and 167.                               *)
(***************************************************************************)
\* name.split(".")[-1]: what follows the last "."
RECURSIVE SplitLast(_)
SplitLast(name) ==
    IF \E i \in 1..Len(name) : name[i] = "."
    THEN SplitLast(SubSeq(name, (CHOOSE i \in 1..Len(name) : name[i] = ".") + 1, Len(name)))
    ELSE name

LowerChar(c) ==
    CASE c = "P" -> "p" [] c = "Y" -> "y" [] c = "J" -> "j" [] c = "S" -> "s"
      [] OTHER -> c

\* str.lower()
Lower(str) == [i \in 1..Len(str) |-> LowerChar(str[i])]

\* line 155
FileExtension(name) == Lower(SplitLast(name))

IsPythonAnyExtension(file_extension) == TRUE

\* line 167
IsPython(file_extension) == file_extension = <<"p", "y">>

(***************************************************************************)
(* Inputs: the documents and files a run may be given.                     *)
(***************************************************************************)
RECURSIVE SeqsUpTo(_, _)
SeqsUpTo(S, n) ==
    IF n = 0 THEN {<<>>}
    ELSE LET shorter == SeqsUpTo(S, n - 1)
         IN  shorter \cup {Append(q, x) : q \in shorter, x \in S}

Sizes == (1..MaxSmall) \cup ((NodeThreshold - Window)..(NodeThreshold + Window))

Shapes ==
    {[valid |-> TRUE, funs |-> f, nested |-> b, nest |-> e, variety |-> v, fill |-> 0] :
        f \in SeqsUpTo(DefKinds, MaxFuns),
        b \in BOOLEAN,
        e \in {0, 1, ParserNestLimit, ParserNestLimit + 1},
        v \in {0, MaxVariety}}

ValidDocs ==
    {[x[1] EXCEPT !.fill = x[2] - TreeSize(x[1])] :
        x \in {y \in Shapes \X Sizes :
                 /\ y[1].nested => Len(y[1].funs) >= 2
                 /\ y[2] >= TreeSize(y[1])}}

\* a text that is not Python: an unterminated block, another language
InvalidDoc ==
    [valid |-> FALSE, funs |-> <<>>, nested |-> FALSE, nest |-> 0, variety |-> 0, fill |-> 0]

EmptyDoc ==
    [valid |-> TRUE, funs |-> <<>>, nested |-> FALSE, nest |-> 0, variety |-> 0, fill |-> 0]

PyNames == {<<"a", ".", "p", "y">>, <<"a", ".", "P", "Y">>}
OtherNames == {<<"a", ".", "j", "s">>, <<"p", "y", ".", "J", "S">>}

Files ==
    {[name |-> n, doc |-> d] : n \in PyNames, d \in ValidDocs \cup {InvalidDoc}}
    \cup {[name |-> n, doc |-> d] : n \in OtherNames, d \in {InvalidDoc, EmptyDoc}}

NoFile == [name |-> <<>>, doc |-> InvalidDoc]

(***************************************************************************)
(* The result section, lines 172-205.                                      *)
(***************************************************************************)
Widget(w, msg) == [w |-> w, msg |-> msg]

ParseFailureMessage == Widget("error", "Could not parse Python AST.")
JudgmentErrorMessage == Widget("error", "API Limit or Error Detected")

JudgmentErrorWidgetsCopied ==
    << JudgmentErrorMessage,
       ParseFailureMessage,
       Widget("warning", "If this is a 429 error, the API quota is exhausted.") >>

\* lines 201-205: the except branch of the deep scan
JudgmentErrorWidgets ==
    << JudgmentErrorMessage,
       Widget("markdown", "error-scroll"),
       Widget("warning", "If this is a 429 error, the API quota is exhausted.") >>

StructuralWidgetsInverted(d) ==
    <<Widget("markdown", "---")>>
    \o (IF d.kind # "dict"
        THEN << Widget("info", "Structural Analysis"),
                Widget("metric", "Heuristic Score"),
                Widget("progress", "Heuristic Score") >>
        ELSE << ParseFailureMessage >>)

\* lines 173-180: `if data:` is true of the dict (it has three keys) and
\* false of None
StructuralWidgets(d) ==
    <<Widget("markdown", "---")>>
    \o (IF d.kind = "dict"
        THEN << Widget("info", "Structural Analysis"),
                Widget("metric", "Heuristic Score"),
                Widget("progress", "Heuristic Score") >>
        ELSE << ParseFailureMessage >>)

\* lines 187-198 on the dict res: the widgets rendered until a statement
\* raises, and the exception ("none" when all of them ran).
\* `if res:` is false of the empty dict.
VerdictWidgets(res) ==
    LET has(k) == k \in DOMAIN res
        p == res["overall_ai_probability"]
        summary == << Widget("subheader", "Forensic Summary"),
                      Widget("write", IF has("text_summary") THEN "text_summary"
                                      ELSE "No summary provided."),
                      Widget("markdown", "---") >>
        metric == <<Widget("metric", "AI Confidence Score")>>
        progress == <<Widget("progress", "AI Confidence Score")>>
        origin == <<Widget("success", "Likely Origin")>>
        reasoning == <<Widget("write", "Detailed Reasoning")>>
    IN  CASE DOMAIN res = {} ->
               [widgets |-> <<>>, exc |-> "none"]
          [] ~has("overall_ai_probability") ->
               [widgets |-> summary, exc |-> "KeyError"]
          [] p.type # "int" ->
               [widgets |-> summary \o metric, exc |-> "TypeError"]
          [] p.val < 0 \/ p.val > 100 ->
               [widgets |-> summary \o metric, exc |-> "StreamlitAPIException"]
          [] ~has("suspected_source_site") ->
               [widgets |-> summary \o metric \o progress, exc |-> "KeyError"]
          [] ~has("reasoning") ->
               [widgets |-> summary \o metric \o progress \o origin, exc |-> "KeyError"]
          [] OTHER ->
               [widgets |-> summary \o metric \o progress \o origin \o reasoning,
                exc |-> "none"]

\* lines 183-205: what the deep scan renders for an outcome of the service,
\* and the exception its `except Exception` caught ("none" when none)
DeepScan(o) ==
    LET res == analyze_with_gemini(o)
        rendered == IF res.kind = "dict" THEN VerdictWidgets(res.dict)
                    ELSE [widgets |-> <<>>,
                          exc |-> IF res.kind = "raise" THEN res.exc ELSE "none"]
    IN  [res |-> res.kind,
         caught |-> rendered.exc,
         widgets |-> <<Widget("markdown", "---")>> \o rendered.widgets
                     \o (IF rendered.exc # "none" THEN JudgmentErrorWidgets ELSE <<>>)]

Unset == [kind |-> "unset"]
NoVerdict == [called |-> FALSE, gen |-> NoOutcome, res |-> "unset", caught |-> "none"]

\* line 119: st.error when no key is configured, at the top of every run
StartWidgets(key) ==
    IF key THEN <<>> ELSE <<Widget("error", "Gemini API Key missing!")>>

Init ==
    /\ api_key \in BOOLEAN
    /\ uploaded_file = NoFile
    /\ run_ast = FALSE
    /\ run_ai = FALSE
    /\ data = Unset
    /\ verdict = NoVerdict
    /\ shown = <<>>
    /\ calls = <<>>
    /\ pc = "idle"

\* lines 148-169 with a file in the uploader: the file is read, the buttons
\* deliver their values; the structural button is disabled unless is_python
Upload ==
    /\ pc = "idle"
    /\ \E f \in Files, a \in BOOLEAN, b \in BOOLEAN :
         /\ a => IsPython(FileExtension(f.name))
         /\ uploaded_file' = f
         /\ run_ast' = a
         /\ run_ai' = b
    /\ data' = Unset
    /\ verdict' = NoVerdict
    /\ shown' = StartWidgets(api_key)
    /\ calls' = <<>>
    /\ pc' = "structural"
    /\ UNCHANGED api_key

\* line 153 with no file in the uploader: the run renders no result section
NoUpload ==
    /\ pc = "idle"
    /\ uploaded_file' = NoFile
    /\ run_ast' = FALSE
    /\ run_ai' = FALSE
    /\ data' = Unset
    /\ verdict' = NoVerdict
    /\ shown' = StartWidgets(api_key)
    /\ calls' = <<>>
    /\ pc' = "done"
    /\ UNCHANGED api_key

\* lines 172-180.  An exception leaving extract_python_ast would end the run.
StructuralSection ==
    /\ pc = "structural"
    /\ LET file_extension == FileExtension(uploaded_file.name)
       IN  IF run_ast /\ IsPython(file_extension)
           THEN LET d == extract_python_ast(uploaded_file.doc)
                IN  /\ data' = d
                    /\ calls' = Append(calls, [fn |-> "extract_python_ast",
                                               ext |-> file_extension])
                    /\ IF d.kind = "raise"
                       THEN /\ shown' = Append(shown, Widget("markdown", "---"))
                            /\ pc' = "crashed"
                       ELSE /\ shown' = shown \o StructuralWidgets(d)
                            /\ pc' = "deep"
           ELSE /\ pc' = "deep"
                /\ UNCHANGED <<data, calls, shown>>
    /\ UNCHANGED <<api_key, uploaded_file, run_ast, run_ai, verdict>>

\* lines 182-205
DeepSection ==
    /\ pc = "deep"
    /\ IF run_ai
       THEN \E o \in GenerateOutcomes(api_key) :
              LET scan == DeepScan(o)
              IN  /\ verdict' = [called |-> TRUE, gen |-> o,
                                 res |-> scan.res, caught |-> scan.caught]
                  /\ calls' = Append(calls, [fn |-> "analyze_with_gemini",
                                             ext |-> FileExtension(uploaded_file.name)])
                  /\ shown' = shown \o scan.widgets
       ELSE UNCHANGED <<verdict, calls, shown>>
    /\ pc' = "done"
    /\ UNCHANGED <<api_key, uploaded_file, run_ast, run_ai, data>>

\* the run is over; the next interaction starts the script from its first
\* line, and nothing of this run is kept (the script uses no session state)
Rerun ==
    /\ pc \in {"done", "crashed"}
    /\ uploaded_file' = NoFile
    /\ run_ast' = FALSE
    /\ run_ai' = FALSE
    /\ data' = Unset
    /\ verdict' = NoVerdict
    /\ shown' = <<>>
    /\ calls' = <<>>
    /\ pc' = "idle"
    /\ UNCHANGED api_key

Next == Upload \/ NoUpload \/ StructuralSection \/ DeepSection \/ Rerun

Spec == Init /\ [][Next]_vars

(***************************************************************************)
(* Properties.  The tree of the uploaded document is read directly here    *)
(* (its set of nodes), not through the walk of extract_python_ast.         *)
(***************************************************************************)
Range(q) == {q[i] : i \in 1..Len(q)}

Doc == uploaded_file.doc
Ext == FileExtension(uploaded_file.name)

\* the structural section of this run has just run and returned a dict
Scored == pc = "deep" /\ data.kind = "dict"
\* the structural section of this run called extract_python_ast
Scanned == pc = "deep" /\ data.kind # "unset"

TotalNodeCount(t) == Cardinality(DOMAIN t)
DistinctKindCount(t) == Cardinality({t[i].kind : i \in DOMAIN t})
KindCount(t, kinds) == Cardinality({i \in DOMAIN t : t[i].kind \in kinds})
Term(w, b) == IF b THEN w ELSE 0

Called(fn) == \E i \in 1..Len(calls) : calls[i].fn = fn

\* C1: for every source text that parses, the score is
\* min(30*[distinct/total < 0.25] + 20*[FunctionDef count = 1]
\*     + 10*[total > 150], 100), each comparison strict.
C1_ScoreFormula ==
    Scored =>
        LET t == Tree(Doc)
            total == TotalNodeCount(t)
            distinct == DistinctKindCount(t)
        IN  data.dict.score =
                Min(Term(30, 4 * distinct < total)
                    + Term(20, KindCount(t, {"FunctionDef"}) = 1)
                    + Term(10, total > 150), 100)

\* Scenario E: a document on which all three predicates fire
C1_Witness == Scored /\ data.dict.score = 60

\* C2: on every returned record 0 <= score <= 100, 0 <= ratio <= 1 (the
\* two-decimal string, in hundredths), and the distinct-kind count the
\* function computed is at most its node count.
C2_Bounds ==
    Scored =>
        LET node_types == AstWalk(Tree(Doc))
        IN  /\ data.dict.score \in 0..100
            /\ data.dict.ratio \in 0..100
            /\ UniqueNodes(node_types) <= data.dict.nodes
            /\ UniqueNodes(node_types) = DistinctKindCount(Tree(Doc))

\* a large document whose ratio prints as exactly "0.25"
C2_Witness == Scored /\ data.dict.ratio = 25 /\ data.dict.nodes > 150

\* the +20 term is part of the returned score
SingleFunctionTerm ==
    LET t == Tree(Doc)
        total == TotalNodeCount(t)
    IN  data.dict.score
            - Term(30, 4 * DistinctKindCount(t) < total) - Term(10, total > 150) = 20

\* C3 as stated: the +20 term is added iff the number of function
\* definitions (def or async def) anywhere in the tree is exactly 1.
C3_AnyFunctionDefinition ==
    Scored => (SingleFunctionTerm <=> KindCount(Tree(Doc), DefKinds) = 1)

\* C3 amended: the +20 term is added iff the number of FunctionDef nodes
\* (plain def) anywhere in the tree, at any depth, is exactly 1; async def
\* nodes are not counted.
C3_FunctionDefOnly ==
    Scored => (SingleFunctionTerm <=> KindCount(Tree(Doc), {"FunctionDef"}) = 1)

\* two plain defs, one nested in the other: both are counted, no +20
C3_Witness ==
    /\ Scored
    /\ Doc.nested
    /\ Doc.funs = <<"FunctionDef", "FunctionDef">>
    /\ ~SingleFunctionTerm

\* C4 as stated: a returned record carries all five metrics.
MetricOfKey(k) ==
    CASE k = "nodes" -> "total_node_count"
      [] k = "ratio" -> "diversity_ratio"
      [] k = "score" -> "heuristic_score"
      [] OTHER -> k

C4_FiveFields ==
    (data.kind = "dict") =>
        {MetricOfKey(k) : k \in DOMAIN data.dict} =
            {"total_node_count", "distinct_kind_count", "diversity_ratio",
             "top_level_function_count", "heuristic_score"}

\* C4 amended: what extract_python_ast returns is None or a dict with
\* exactly the keys score, nodes and ratio; never a dict with one missing.
C4_ThreeFields ==
    /\ data.kind \in {"unset", "None", "dict"}
    /\ (data.kind = "dict") => DOMAIN data.dict = {"score", "nodes", "ratio"}

C4_Witness == Scored /\ data.dict.nodes = 4 /\ data.dict.score = 20

\* C5 as stated: a syntactically valid input always gives a metrics record.
C5_ValidAlwaysMetrics == (Scanned /\ Doc.valid) => data.kind = "dict"

\* C5 amended: extract_python_ast never raises; on a syntactically valid
\* input it returns a metrics record when ast.parse builds the tree,
\* whatever its size, and None when ast.parse itself raises because the
\* input is nested deeper than the parser can handle.
C5_ValidMetricsUnlessParserFails ==
    /\ pc # "crashed"
    /\ data.kind # "raise"
    /\ (Scanned /\ Doc.valid) =>
           IF Doc.nest <= ParserNestLimit THEN data.kind = "dict"
           ELSE data = NoneResult

\* a valid document nested too deeply for the parser
C5_Witness == Scanned /\ Doc.valid /\ Doc.nest > ParserNestLimit /\ data = NoneResult

\* C6: a syntactically invalid input gives None, which carries nothing, and
\* the result section shows the parse-failure error and no metrics.
C6_InvalidGivesNone ==
    (Scanned /\ ~Doc.valid) =>
        /\ data = NoneResult
        /\ DOMAIN data = {"kind"}
        /\ shown = StartWidgets(api_key)
                   \o <<Widget("markdown", "---"), ParseFailureMessage>>

C6_Witness == Scanned /\ ~Doc.valid /\ ParseFailureMessage \in Range(shown)

\* a document of at most one statement: the empty file, one pass, one
\* expression -1, one def
Degenerate(d) ==
    /\ d.valid
    /\ Len(d.funs) + d.variety + d.fill + (IF d.nest = 0 THEN 0 ELSE 1) <= 1
    /\ d.nest <= 1

\* C7: a degenerate valid document gives a record with at least one node;
\* the empty document gives nodes 1, one kind, ratio "1.00", no function,
\* score 0.
C7_Degenerate ==
    /\ (Scanned /\ Degenerate(Doc)) => (data.kind = "dict" /\ data.dict.nodes >= 1)
    /\ (Scanned /\ Doc = EmptyDoc) =>
          /\ data = [kind |-> "dict", dict |-> [score |-> 0, nodes |-> 1, ratio |-> 100]]
          /\ UniqueNodes(AstWalk(Tree(Doc))) = 1
          /\ CountFunctionDef(AstWalk(Tree(Doc))) = 0

C7_Witness == Scanned /\ Doc = EmptyDoc /\ data.kind = "dict"

\* C8: extract_python_ast is called only when the lower-cased extension is
\* py and the structural scan was requested; analyze_with_gemini is called
\* in a run exactly when the deep scan was requested, for every extension.
C8_CallGuards ==
    /\ Called("extract_python_ast") => (run_ast /\ Ext = <<"p", "y">>)
    /\ (pc = "done") => (Called("analyze_with_gemini") <=> run_ai)

\* a deep scan of a file of another language, the structural analyzer unused
C8_Witness ==
    /\ pc = "done"
    /\ Ext = <<"j", "s">>
    /\ Called("analyze_with_gemini")
    /\ ~Called("extract_python_ast")

\* what counts as a failure of the remote judgment: the call raised, the
\* response held no JSON object or an empty one, or an expected key is missing
JudgmentFailed(o) ==
    \/ o.exc # "none"
    \/ o.body # "object"
    \/ o.keys # VerdictKeys

\* C9: every failure of a requested remote judgment ends with the judgment
\* error shown.
C9_FailureReported ==
    (pc = "done" /\ verdict.called /\ JudgmentFailed(verdict.gen)) =>
        JudgmentErrorMessage \in Range(shown)

\* C10: the parse-failure message is shown exactly when the structural scan
\* ran and returned None, the judgment error exactly when the deep scan
\* raised, and the structural metrics exactly when a dict was returned,
\* whatever the other analyzer did.
C10_ReportsSeparate ==
    /\ (ParseFailureMessage \in Range(shown)) <=>
           (Called("extract_python_ast") /\ data = NoneResult)
    /\ (JudgmentErrorMessage \in Range(shown)) <=>
           (Called("analyze_with_gemini") /\ verdict.caught # "none")
    /\ (Widget("metric", "Heuristic Score") \in Range(shown)) <=>
           (Called("extract_python_ast") /\ data.kind = "dict")
    /\ (pc = "done" /\ verdict.called /\ verdict.res = "dict"
        /\ verdict.gen.keys # {} /\ verdict.caught = "none") =>
           Widget("metric", "AI Confidence Score") \in Range(shown)

\* both analyzers failed in one run, each with its own message
C10_Witness ==
    /\ pc = "done"
    /\ data = NoneResult
    /\ verdict.caught # "none"
    /\ ParseFailureMessage \in Range(shown)
    /\ JudgmentErrorMessage \in Range(shown)

====
